---- MODULE Spec2Model ----
(***************************************************************************)
(* Model of new_alarm_cond.c: the shared alarm list, the worker table     *)
(* active_group_threads, the mutex alarm_mutex and the condition variable *)
(* alarm_cond, and the threads that use them: main (the command loop),    *)
(* group_display_creation_thread, group_display_removal_thread, the       *)
(* display_alarm_thread instances and alarm_thread.                       *)
(*                                                                         *)
(* A critical section is two steps: the thread takes alarm_mutex, and     *)
(* then runs the code up to the unlock or up to the condition wait that   *)
(* releases the mutex.  A lock that is followed at once by a condition    *)
(* wait is one step.  The clock `now` is what time(NULL) returns; it may  *)
(* advance inside the traversal of a display thread, which reads it at    *)
(* every node.  Of a message its length and its bytes are kept.           *)
(*                                                                         *)
(* main creates the two loops but never alarm_thread.  Spec is the        *)
(* program as main wires it, fed group ids inside the table and messages  *)
(* that fit; SpecAnyRange feeds it a group id of MAX_GROUPS as well and   *)
(* SpecLongMessage messages that overflow their buffer.  The steps of     *)
(* alarm_thread are defined from its code, but they are part of no        *)
(* specification here, as they are part of no run of the program.         *)
(***************************************************************************)
EXTENDS Integers, Sequences, FiniteSets, TLC

\* ---- program constants -------------------------------------------------
MAX_GROUPS == 256

\* ---- bounds of the model -----------------------------------------------
MaxReq     == 3   \* input lines read by main
MaxLongReq == 2   \* input lines read by main when lines of any length are fed
MaxTime    == 1   \* last value of the clock
MaxWorkers == 2   \* display threads spawned per group

\* ---- inputs --------------------------------------------------------------
Ids     == {1, 2}
Secs    == {0, 1}
GroupsInRange == {0, 1}
GroupsOutOfRange == {MAX_GROUPS}

\* Line 347: char message[128 - 50].  A line of up to 127 characters (line
\* 368) can carry a message that does not fit.  A message is kept as its
\* length and the byte it is made of: len characters of value fill.
MessageSize == 128 - 50
MsgFits == { [len |-> 77, fill |-> 65] }
MsgAny  == MsgFits \cup
           { [len |-> 78, fill |-> 65], [len |-> 84, fill |-> 65],
             [len |-> 85, fill |-> 65], [len |-> 89, fill |-> 65],
             [len |-> 90, fill |-> 65], [len |-> 91, fill |-> 65],
             [len |-> 93, fill |-> 65], [len |-> 97, fill |-> 65],
             [len |-> 97, fill |-> 255] }

\* Line 346: where time, group_id and alarm_id lie, in bytes from the start
\* of message, in a build that places them behind it.
TimeOffset    == 84
GroupIdOffset == 88
AlarmIdOffset == 92

\* The group ids that bytes of a message leave in group_id: one inside the
\* table, the others far outside it.
Overflowed == 1094795585
GroupsFromMessage == {65}
GroupsFar == {16705, 4276545, Overflowed}
AllGroups == GroupsInRange \cup GroupsFromMessage \cup GroupsOutOfRange
             \cup GroupsFar

\* The lines "Start_Alarm(id): Group(g) t msg" that main is fed: every
\* combination of the non-negative values, and three with a negative field.
Requests(G, F) ==
    { [id |-> i, groupId |-> g, seconds |-> t, len |-> m.len, fill |-> m.fill] :
          i \in Ids, g \in G, t \in Secs, m \in F }
    \cup { [id |-> -1, groupId |-> 0, seconds |-> 2,
            len |-> m.len, fill |-> m.fill] : m \in F }
    \cup { [id |-> 1, groupId |-> -1, seconds |-> 2,
            len |-> m.len, fill |-> m.fill] : m \in F }
    \cup { [id |-> 1, groupId |-> 0, seconds |-> -1,
            len |-> m.len, fill |-> m.fill] : m \in F }

\* The message of r and its terminating NUL fit message.
Fits(r) == r.len < MessageSize

\* Byte i of the int v, least significant first.
ByteOf(v, i) == (v \div (256 ^ i)) % 256

\* The byte at p bytes from the start of message once sscanf has stored the
\* message and its NUL there; old is the byte before.
StoredByte(r, p, old) ==
    IF p < r.len THEN r.fill ELSE IF p = r.len THEN 0 ELSE old

\* The int at offset off, which held v, after the message was stored.
Overwritten(r, v, off) ==
    LET b(i) == StoredByte(r, off + i, ByteOf(v, i))
    IN  b(0) + 256 * b(1) + 65536 * b(2)
        + 16777216 * (IF b(3) >= 128 THEN b(3) - 256 ELSE b(3))

\* Lines 377 and 391: what sscanf leaves in alarm_id, group_id and time.
\* The ints are stored first and the message last.  Writing past message is
\* undefined: the three ints keep their values, or, where they lie behind
\* message, take the bytes of the message that reach them.
Overflows(r) == IF Fits(r) THEN {"kept"} ELSE {"kept", "overwritten"}
Scanned(r, o) ==
    IF o = "kept" THEN r
    ELSE [r EXCEPT !.id = Overwritten(r, r.id, AlarmIdOffset),
                   !.groupId = Overwritten(r, r.groupId, GroupIdOffset),
                   !.seconds = Overwritten(r, r.seconds, TimeOffset)]

\* Line 378, the test of the Start_Alarm branch.
Negative(r) == r.id < 0 \/ r.groupId < 0 \/ r.seconds < 0

NoRequest == [id |-> 0, groupId |-> 0, seconds |-> 0, len |-> 0, fill |-> 0]
NoAlarm == [seq |-> 0, id |-> 0, groupId |-> 0, seconds |-> 0, time |-> 0]
NoOwner == <<"none", -1>>
Owner(kind) == <<kind, -1>>
DisplayOwner(g) == <<"display", g>>

VARIABLES
    alarm_list,            \* the linked list from alarm_list, head first
    active_group_threads,  \* int active_group_threads[MAX_GROUPS], whose
                           \* entries are 0 or 1: the set of the indices
                           \* whose entry is 1
    current_alarm,         \* time_t current_alarm
    mutex,                 \* the thread that holds alarm_mutex
    proc,                  \* "running", or "exited" after exit()/abort()
    corrupt,               \* a store outside an array has happened
    now,                   \* time(NULL)
    mpc, req, new_alarm, ack, nreq,   \* main
    cpc,                   \* group_display_creation_thread
    rpc,                   \* group_display_removal_thread
    workers,               \* running display_alarm_thread instances per group
    apc, alarm, fired,     \* alarm_thread, its held alarm, its printed lines
    preempts               \* history: <<s2, s1>>, node s2 was inserted with
                           \* an earlier time while alarm_thread waited on s1

vars == <<alarm_list, active_group_threads, current_alarm, mutex, proc,
          corrupt, now, mpc, req, new_alarm, ack, nreq, cpc, rpc, workers,
          apc, alarm, fired, preempts>>

mainVars == <<mpc, req, new_alarm, ack, nreq>>

TableIdx == 0 .. (MAX_GROUPS - 1)

\* active_group_threads[g] of a table tbl.
Entry(tbl, g) == IF g \in tbl THEN 1 ELSE 0

\* ---- helpers -------------------------------------------------------------
GroupsOf(list) == { list[i].groupId : i \in DOMAIN list }
SeqsOf(list) == { list[i].seq : i \in DOMAIN list }

\* insert_alarm, lines 71-82: the position after which the new node is linked.
RECURSIVE WalkById(_, _, _)
WalkById(list, current, id) ==
    IF current < Len(list) /\ list[current + 1].id < id
    THEN WalkById(list, current + 1, id)
    ELSE current

\* insert_alarm with lines 73 and 80 leaving the new node's link NULL.
insert_alarm_unlinked(list, a) ==
    IF list = <<>> \/ Head(list).id > a.id
    THEN <<a>>
    ELSE LET current == WalkById(list, 1, a.id)
         IN  SubSeq(list, 1, current) \o <<a>>

\* insert_alarm with >= for > in the head test of line 71.
insert_alarm_head_on_equal(list, a) ==
    IF list = <<>> \/ Head(list).id >= a.id
    THEN <<a>> \o list
    ELSE LET current == WalkById(list, 1, a.id)
         IN  SubSeq(list, 1, current) \o <<a>> \o SubSeq(list, current + 1, Len(list))

insert_alarm(list, a) ==
    IF list = <<>> \/ Head(list).id > a.id
    THEN <<a>> \o list
    ELSE LET current == WalkById(list, 1, a.id)
         IN  SubSeq(list, 1, current) \o <<a>> \o SubSeq(list, current + 1, Len(list))

\* alarm_insert, lines 109-128: before the first node whose time is >= a.time.
RECURSIVE WalkByTime(_, _, _)
WalkByTime(list, next, t) ==
    IF next <= Len(list) /\ list[next].time < t
    THEN WalkByTime(list, next + 1, t)
    ELSE next

alarm_insert(list, a) ==
    LET next == WalkByTime(list, 1, a.time)
    IN  SubSeq(list, 1, next - 1) \o <<a>> \o SubSeq(list, next, Len(list))

\* display_alarm_thread reads time(NULL) anew at every use: in the test of
\* line 226 (only when the group matches), in get_current_time for the
\* printed line (line 229) and in the store of line 235.  readings is the
\* sequence of the values returned, used the number of them consumed so far.
\* The traversal without the test of the time in line 226.
RECURSIVE display_walk_always_due(_, _, _, _)
display_walk_always_due(list, group_id, readings, used) ==
    IF list = <<>> THEN [list |-> <<>>, used |-> used]
    ELSE LET current == Head(list)
         IN  IF current.groupId = group_id
             THEN LET rest == display_walk_always_due(Tail(list), group_id,
                                                      readings, used + 3)
                  IN  [list |-> <<[current EXCEPT
                                     !.time = readings[used + 3] + current.seconds]>>
                                \o rest.list,
                       used |-> rest.used]
             ELSE LET rest == display_walk_always_due(Tail(list), group_id,
                                                      readings, used)
                  IN  [list |-> <<current>> \o rest.list, used |-> rest.used]

display_scan_always_due(list, group_id, readings) ==
    display_walk_always_due(list, group_id, readings, 0).list

\* Lines 224-239: the traversal from a node on.
RECURSIVE display_walk(_, _, _, _)
display_walk(list, group_id, readings, used) ==
    IF list = <<>> THEN [list |-> <<>>, used |-> used]
    ELSE LET current == Head(list)
         IN  IF current.groupId = group_id /\ readings[used + 1] >= current.time
             THEN LET rest == display_walk(Tail(list), group_id, readings, used + 3)
                  IN  [list |-> <<[current EXCEPT
                                     !.time = readings[used + 3] + current.seconds]>>
                                \o rest.list,
                       used |-> rest.used]
             ELSE LET rest == display_walk(Tail(list), group_id, readings,
                                           IF current.groupId = group_id
                                           THEN used + 1 ELSE used)
                  IN  [list |-> <<current>> \o rest.list, used |-> rest.used]

\* display_alarm_thread, lines 221-239: the list after one traversal for
\* group_id.
display_scan(list, group_id, readings) ==
    display_walk(list, group_id, readings, 0).list

\* The last value of time(NULL) the traversal has seen, t when it read none.
display_clock(list, group_id, readings, t) ==
    LET used == display_walk(list, group_id, readings, 0).used
    IN  IF used = 0 THEN t ELSE readings[used]

\* The sequences of n successive values of time(NULL), from lo on.
RECURSIVE ClockReadings(_, _)
ClockReadings(n, lo) ==
    IF n = 0 THEN {<<>>}
    ELSE UNION { { <<v>> \o rs : rs \in ClockReadings(n - 1, v) } : v \in lo .. MaxTime }

\* group_display_creation_thread, lines 256-296: the traversal.  tbl is the
\* table as the loop reads it, w the display threads per group.
\* The traversal without the test of line 260.
RECURSIVE creation_scan_untested(_, _, _)
creation_scan_untested(list, tbl, w) ==
    IF list = <<>> THEN [tbl |-> tbl, w |-> w]
    ELSE creation_scan_untested(Tail(list),
                                tbl \cup {Head(list).groupId},
                                [w EXCEPT ![Head(list).groupId] = @ + 1])

\* The traversal without the store of line 278.
RECURSIVE creation_scan_flag_unset(_, _, _)
creation_scan_flag_unset(list, tbl, w) ==
    IF list = <<>> THEN [tbl |-> tbl, w |-> w]
    ELSE LET group_id == Head(list).groupId
         IN  IF Entry(tbl, group_id) = 0
             THEN creation_scan_flag_unset(Tail(list), tbl,
                                           [w EXCEPT ![group_id] = @ + 1])
             ELSE creation_scan_flag_unset(Tail(list), tbl, w)

\* The traversal without the pthread_create of line 270.
RECURSIVE creation_scan_unspawned(_, _, _)
creation_scan_unspawned(list, tbl, w) ==
    IF list = <<>> THEN [tbl |-> tbl, w |-> w]
    ELSE creation_scan_unspawned(Tail(list), tbl \cup {Head(list).groupId}, w)

RECURSIVE creation_scan(_, _, _)
creation_scan(list, tbl, w) ==
    IF list = <<>> THEN [tbl |-> tbl, w |-> w]
    ELSE LET group_id == Head(list).groupId
         IN  IF Entry(tbl, group_id) = 0
             THEN creation_scan(Tail(list),
                                tbl \cup {group_id},
                                [w EXCEPT ![group_id] = @ + 1])
             ELSE creation_scan(Tail(list), tbl, w)

\* The reset of line 323 without the test of groups_to_remove in line 321.
removal_scan_unlisted(list, tbl) ==
    { group_id \in tbl : ~(Entry(tbl, group_id) = 1) }

\* group_display_removal_thread, lines 310-332.
removal_scan(list, tbl) ==
    LET groups_to_remove == GroupsOf(list)
    IN  { group_id \in tbl :
            ~(Entry(tbl, group_id) = 1 /\ Entry(groups_to_remove, group_id) = 0) }

\* pthread_cond_broadcast: every thread blocked on alarm_cond is released
\* and has to take the mutex again.
Woken(pc) ==
    CASE pc = "blocked" -> "woken"
      [] pc = "idleBlocked" -> "idleWoken"
      [] pc = "timedBlocked" -> "timedWoken"
      [] OTHER -> pc

\* ---- initial state -------------------------------------------------------
InitCommon ==
    /\ alarm_list = <<>>
    /\ active_group_threads = {}
    /\ current_alarm = 0
    /\ mutex = NoOwner
    /\ proc = "running"
    /\ corrupt = FALSE
    /\ now = 0
    /\ mpc = "read" /\ req = NoRequest /\ new_alarm = NoAlarm
    /\ ack = "none" /\ nreq = 0
    /\ cpc = "lock"
    /\ rpc = "lock"
    /\ workers = [g \in AllGroups |-> 0]
    /\ alarm = NoAlarm /\ fired = <<>>
    /\ preempts = {}

\* main never creates alarm_thread (lines 349-363).
Init == InitCommon /\ apc = "off"

\* ---- the clock -----------------------------------------------------------
Tick ==
    /\ proc = "running"
    /\ now < MaxTime
    /\ now' = now + 1
    /\ UNCHANGED <<alarm_list, active_group_threads, current_alarm, mutex,
                   proc, corrupt, mpc, req, new_alarm, ack, nreq, cpc, rpc,
                   workers, apc, alarm, fired, preempts>>


\* ---- main, lines 366-463 ------------------------------------------------
\* n is the number of lines the input may hold; the input may end after
\* any of them.

\* Line 368: fgets returns NULL at the end of the input and main calls
\* exit(0), which ends the process with its threads.
MainEndOfInput ==
    /\ proc = "running" /\ mpc = "read"
    /\ proc' = "exited"
    /\ UNCHANGED <<alarm_list, active_group_threads, current_alarm, mutex,
                   corrupt, now, mainVars, cpc, rpc, workers, apc, alarm,
                   fired, preempts>>

\* Lines 369-372: a line was read, malloc of the unused alarm fails and
\* errno_abort ends the process.
MainAllocAbort(n) ==
    /\ proc = "running" /\ mpc = "read" /\ nreq < n
    /\ proc' = "exited"
    /\ UNCHANGED <<alarm_list, active_group_threads, current_alarm, mutex,
                   corrupt, now, mainVars, cpc, rpc, workers, apc, alarm,
                   fired, preempts>>

\* Lines 377-379: a Start_Alarm line with a negative field.
MainInvalid(G, F, n) ==
    /\ proc = "running" /\ mpc = "read" /\ nreq < n
    /\ \E r \in Requests(G, F) : \E o \in Overflows(r) :
          /\ Negative(Scanned(r, o))
          /\ req' = r
          /\ corrupt' = (corrupt \/ ~Fits(r))
    /\ ack' = "invalid"
    /\ nreq' = nreq + 1
    /\ UNCHANGED <<alarm_list, active_group_threads, current_alarm, mutex,
                   proc, now, mpc, new_alarm, cpc, rpc, workers,
                   apc, alarm, fired, preempts>>

\* Lines 380-386 and 53-66: the request is accepted, insert_alarm allocates
\* and fills the node; its time is read before the mutex is taken.
MainStart(G, F, n) ==
    /\ proc = "running" /\ mpc = "read" /\ nreq < n
    /\ \E r \in Requests(G, F) : \E o \in Overflows(r) :
          LET scanned == Scanned(r, o)
          IN  /\ ~Negative(scanned)
              /\ req' = r
              /\ new_alarm' = [seq |-> nreq + 1, id |-> scanned.id,
                               groupId |-> scanned.groupId,
                               seconds |-> scanned.seconds,
                               time |-> now + scanned.seconds]
              /\ corrupt' = (corrupt \/ ~Fits(r))
    /\ ack' = "start"
    /\ nreq' = nreq + 1
    /\ mpc' = "lock"
    /\ UNCHANGED <<alarm_list, active_group_threads, current_alarm, mutex,
                   proc, now, cpc, rpc, workers, apc, alarm, fired, preempts>>

\* Lines 53-57: malloc fails in insert_alarm, which returns; main broadcasts.
MainStartAllocFail(G, F, n) ==
    /\ proc = "running" /\ mpc = "read" /\ nreq < n
    /\ \E r \in Requests(G, F) : \E o \in Overflows(r) :
          /\ ~Negative(Scanned(r, o))
          /\ req' = r
          /\ corrupt' = (corrupt \/ ~Fits(r))
    /\ ack' = "start"
    /\ nreq' = nreq + 1
    /\ mpc' = "bcast"
    /\ UNCHANGED <<alarm_list, active_group_threads, current_alarm, mutex,
                   proc, now, new_alarm, cpc, rpc, workers, apc,
                   alarm, fired, preempts>>

\* Lines 391-421: Change_Alarm, Cancel_Alarm, Suspend_Alarm and
\* Reactivate_Alarm print the request, or the invalid-request line when the
\* alarm id is negative; lines 460-462 answer every other line as invalid.
\* Change_Alarm reads a message as Start_Alarm does (line 391).
OtherCommands == {"change", "cancel", "suspend", "reactivate"}

MainOther(F, n) ==
    /\ proc = "running" /\ mpc = "read" /\ nreq < n
    /\ \E kind \in OtherCommands, alarm_id \in {-1, 1}, m \in F :
          LET r == [id |-> alarm_id, groupId |-> 0, seconds |-> 0,
                    len |-> IF kind = "change" THEN m.len ELSE 0,
                    fill |-> m.fill]
          IN  \E o \in Overflows(r) :
                 /\ ack' = IF Negative(Scanned(r, o)) THEN "invalid" ELSE kind
                 /\ corrupt' = (corrupt \/ ~Fits(r))
    /\ req' = NoRequest
    /\ nreq' = nreq + 1
    /\ UNCHANGED <<alarm_list, active_group_threads, current_alarm, mutex,
                   proc, now, mpc, new_alarm, cpc, rpc, workers,
                   apc, alarm, fired, preempts>>

\* Lines 422-427: the line View_Alarms is read and its heading printed.
MainViewRead(n) ==
    /\ proc = "running" /\ mpc = "read" /\ nreq < n
    /\ mpc' = "viewlock"
    /\ ack' = "view"
    /\ req' = NoRequest
    /\ nreq' = nreq + 1
    /\ UNCHANGED <<alarm_list, active_group_threads, current_alarm, mutex,
                   proc, corrupt, now, new_alarm, cpc, rpc, workers, apc,
                   alarm, fired, preempts>>

\* Line 429.
MainViewLock ==
    /\ proc = "running" /\ mpc = "viewlock" /\ mutex = NoOwner
    /\ mutex' = Owner("main")
    /\ mpc' = "view"
    /\ UNCHANGED <<alarm_list, active_group_threads, current_alarm, proc,
                   corrupt, now, req, new_alarm, ack, nreq, cpc, rpc, workers,
                   apc, alarm, fired, preempts>>

\* View_Alarms with the unlock of line 459 left out.
MainViewKeepLock ==
    /\ proc = "running" /\ mpc = "view" /\ mutex = Owner("main")
    /\ mpc' = "read"
    /\ UNCHANGED <<alarm_list, active_group_threads, current_alarm, mutex,
                   proc, corrupt, now, req, new_alarm, ack, nreq, cpc, rpc,
                   workers, apc, alarm, fired, preempts>>

\* Lines 431-459: the table and the list are read and printed, then the
\* unlock.
MainView ==
    /\ proc = "running" /\ mpc = "view" /\ mutex = Owner("main")
    /\ mutex' = NoOwner
    /\ mpc' = "read"
    /\ UNCHANGED <<alarm_list, active_group_threads, current_alarm, proc,
                   corrupt, now, req, new_alarm, ack, nreq, cpc, rpc, workers,
                   apc, alarm, fired, preempts>>

\* insert_alarm entered without the lock of line 69.
MainLockNotTaken ==
    /\ proc = "running" /\ mpc = "lock"
    /\ mpc' = "insert"
    /\ UNCHANGED <<alarm_list, active_group_threads, current_alarm, mutex,
                   proc, corrupt, now, req, new_alarm, ack, nreq, cpc, rpc,
                   workers, apc, alarm, fired, preempts>>

\* Line 69.
MainLock ==
    /\ proc = "running" /\ mpc = "lock" /\ mutex = NoOwner
    /\ mutex' = Owner("main")
    /\ mpc' = "insert"
    /\ UNCHANGED <<alarm_list, active_group_threads, current_alarm, proc,
                   corrupt, now, req, new_alarm, ack, nreq, cpc, rpc, workers,
                   apc, alarm, fired, preempts>>

\* Lines 71-85.
MainInsert ==
    /\ proc = "running" /\ mpc = "insert" /\ mutex = Owner("main")
    /\ alarm_list' = insert_alarm(alarm_list, new_alarm)
    /\ mutex' = NoOwner
    /\ mpc' = "bcast"
    /\ new_alarm' = NoAlarm
    /\ preempts' = IF apc = "timedBlocked" /\ now < alarm.time
                      /\ new_alarm.time < alarm.time
                   THEN preempts \cup {<<new_alarm.seq, alarm.seq>>}
                   ELSE preempts
    /\ UNCHANGED <<active_group_threads, current_alarm, proc, corrupt, now,
                   req, ack, nreq, cpc, rpc, workers, apc, alarm, fired>>

\* Line 389.
MainBroadcast ==
    /\ proc = "running" /\ mpc = "bcast"
    /\ mpc' = "read"
    /\ req' = NoRequest
    /\ cpc' = Woken(cpc)
    /\ rpc' = Woken(rpc)
    /\ apc' = Woken(apc)
    /\ UNCHANGED <<alarm_list, active_group_threads, current_alarm, mutex,
                   proc, corrupt, now, new_alarm, ack, nreq, workers,
                   alarm, fired, preempts>>

\* ---- group_display_creation_thread, lines 247-301 -----------------------
\* Lines 249-252: lock, and the wait releases the mutex again.
CreationWait ==
    /\ proc = "running" /\ cpc = "lock" /\ mutex = NoOwner
    /\ cpc' = "blocked"
    /\ UNCHANGED <<alarm_list, active_group_threads, current_alarm, mutex,
                   proc, corrupt, now, mainVars, rpc, workers, apc, alarm,
                   fired, preempts>>

\* Line 252: the wait returns with the mutex held.
CreationReacquire ==
    /\ proc = "running" /\ cpc = "woken" /\ mutex = NoOwner
    /\ mutex' = Owner("creation")
    /\ cpc' = "scan"
    /\ UNCHANGED <<alarm_list, active_group_threads, current_alarm, proc,
                   corrupt, now, mainVars, rpc, workers, apc, alarm, fired, preempts>>

\* The table as the traversal reads it: an index outside the array reads
\* whatever word lies there; ones are the indices outside that read 1.
OutsideTable == AllGroups \ TableIdx
TableView(tbl, ones) == tbl \cup ones

\* Lines 254-298: the traversal with every malloc and pthread_create
\* succeeding, then the unlock.  The read of line 260 at an index far
\* outside the table may end the process (SIGSEGV).
CreationScan ==
    /\ proc = "running" /\ cpc = "scan" /\ mutex = Owner("creation")
    /\ \E ones \in SUBSET (OutsideTable \cap GroupsOf(alarm_list)) :
          LET out == creation_scan(alarm_list,
                                   TableView(active_group_threads, ones), workers)
          IN  /\ \A g \in AllGroups : out.w[g] <= MaxWorkers
              /\ active_group_threads' = out.tbl \cap TableIdx
              /\ workers' = out.w
              /\ corrupt' = (corrupt \/ \E g \in OutsideTable :
                                          g \in GroupsOf(alarm_list) /\ g \notin ones)
    /\ proc' \in IF GroupsOf(alarm_list) \cap GroupsFar # {}
                 THEN {"running", "exited"}
                 ELSE {"running"}
    /\ mutex' = NoOwner
    /\ cpc' = "lock"
    /\ UNCHANGED <<alarm_list, current_alarm, now, mainVars, rpc, apc,
                   alarm, fired, preempts>>

\* Lines 261-264 and 270-273: malloc or pthread_create fails at node n, and
\* the loop unlocks the mutex on its way to exit(1).
CreationSpawnFail ==
    /\ proc = "running" /\ cpc = "scan" /\ mutex = Owner("creation")
    /\ \E ones \in SUBSET (OutsideTable \cap GroupsOf(alarm_list)),
          n \in DOMAIN alarm_list :
          LET out == creation_scan(SubSeq(alarm_list, 1, n - 1),
                                   TableView(active_group_threads, ones), workers)
          IN  /\ Entry(out.tbl, alarm_list[n].groupId) = 0
              /\ \A g \in AllGroups : out.w[g] <= MaxWorkers
              /\ active_group_threads' = out.tbl \cap TableIdx
              /\ workers' = out.w
              /\ corrupt' = (corrupt \/ \E i \in 1 .. (n - 1) :
                                          /\ alarm_list[i].groupId \notin TableIdx
                                          /\ alarm_list[i].groupId \notin ones)
    /\ mutex' = NoOwner
    /\ cpc' = "exit"
    /\ UNCHANGED <<alarm_list, current_alarm, proc, now, mainVars, rpc, apc,
                   alarm, fired, preempts>>

\* Lines 265 and 274: exit(1).
CreationExit ==
    /\ proc = "running" /\ cpc = "exit"
    /\ proc' = "exited"
    /\ UNCHANGED <<alarm_list, active_group_threads, current_alarm, mutex,
                   corrupt, now, mainVars, cpc, rpc, workers, apc, alarm,
                   fired, preempts>>

\* ---- group_display_removal_thread, lines 302-337 ------------------------
RemovalWait ==
    /\ proc = "running" /\ rpc = "lock" /\ mutex = NoOwner
    /\ rpc' = "blocked"
    /\ UNCHANGED <<alarm_list, active_group_threads, current_alarm, mutex,
                   proc, corrupt, now, mainVars, cpc, workers, apc, alarm,
                   fired, preempts>>

RemovalReacquire ==
    /\ proc = "running" /\ rpc = "woken" /\ mutex = NoOwner
    /\ mutex' = Owner("removal")
    /\ rpc' = "scan"
    /\ UNCHANGED <<alarm_list, active_group_threads, current_alarm, proc,
                   corrupt, now, mainVars, cpc, workers, apc, alarm, fired, preempts>>

\* Lines 310-334.  Line 315 stores outside groups_to_remove when a node's
\* groupId is not below MAX_GROUPS; the process may then fail.
RemovalScan ==
    /\ proc = "running" /\ rpc = "scan" /\ mutex = Owner("removal")
    /\ active_group_threads' = removal_scan(alarm_list, active_group_threads)
    /\ IF \E g \in OutsideTable : g \in GroupsOf(alarm_list)
       THEN corrupt' = TRUE /\ proc' \in {"running", "exited"}
       ELSE UNCHANGED <<corrupt, proc>>
    /\ mutex' = NoOwner
    /\ rpc' = "lock"
    /\ UNCHANGED <<alarm_list, current_alarm, now, mainVars, cpc, workers,
                   apc, alarm, fired, preempts>>

\* A condition wait may return without a signal (POSIX).
SpuriousWakeup ==
    /\ proc = "running"
    /\ \/ cpc = "blocked" /\ cpc' = "woken" /\ UNCHANGED <<rpc, apc>>
       \/ rpc = "blocked" /\ rpc' = "woken" /\ UNCHANGED <<cpc, apc>>
       \/ apc \in {"idleBlocked", "timedBlocked"} /\ apc' = Woken(apc)
             /\ UNCHANGED <<cpc, rpc>>
    /\ UNCHANGED <<alarm_list, active_group_threads, current_alarm, mutex,
                   proc, corrupt, now, mainVars, workers, alarm, fired, preempts>>

\* ---- display_alarm_thread, lines 215-246 --------------------------------
\* The threads of one group are interchangeable: workers counts them.  The
\* sleep(1) between two traversals is a delay of any length.
DisplayLock ==
    /\ proc = "running" /\ mutex = NoOwner
    /\ \E g \in AllGroups : workers[g] > 0 /\ mutex' = DisplayOwner(g)
    /\ UNCHANGED <<alarm_list, active_group_threads, current_alarm, proc,
                   corrupt, now, mainVars, cpc, rpc, workers, apc, alarm,
                   fired, preempts>>

\* Lines 221-241: one traversal and the unlock.  The clock may advance
\* between two readings of the traversal.
DisplayScan ==
    /\ proc = "running" /\ mutex[1] = "display"
    /\ LET group_id == mutex[2]
           n == Cardinality({ i \in DOMAIN alarm_list :
                                alarm_list[i].groupId = group_id })
       IN  \E readings \in ClockReadings(3 * n, now) :
              /\ alarm_list' = display_scan(alarm_list, group_id, readings)
              /\ now' = display_clock(alarm_list, group_id, readings, now)
    /\ mutex' = NoOwner
    /\ UNCHANGED <<active_group_threads, current_alarm, proc, corrupt,
                   mainVars, cpc, rpc, workers, apc, alarm, fired, preempts>>

\* ---- alarm_thread, lines 153-212 -----------------------------------------
\* Line 208: what the printed line tells of the alarm.
Printed(a) == [seq |-> a.seq, seconds |-> a.seconds]

\* Line 166.
AlarmLock ==
    /\ proc = "running" /\ apc = "start" /\ mutex = NoOwner
    /\ mutex' = Owner("alarm")
    /\ apc' = "loop"
    /\ UNCHANGED <<alarm_list, active_group_threads, current_alarm, proc,
                   corrupt, now, mainVars, cpc, rpc, workers, alarm, fired,
                   preempts>>

\* Lines 175-206 from the top of the loop ("loop") or from the return of the
\* wait of line 177 ("idle"), up to the next wait or to the end of the body.
AlarmLoop ==
    /\ proc = "running" /\ apc \in {"loop", "idle"} /\ mutex = Owner("alarm")
    /\ LET cur == IF apc = "loop" THEN 0 ELSE current_alarm
       IN  IF alarm_list = <<>>
           THEN /\ current_alarm' = cur
                /\ apc' = "idleBlocked"
                /\ mutex' = NoOwner
                /\ UNCHANGED <<alarm_list, alarm, fired>>
           ELSE /\ alarm_list' = Tail(alarm_list)
                /\ IF Head(alarm_list).time > now
                   THEN /\ alarm' = Head(alarm_list)
                        /\ current_alarm' = Head(alarm_list).time
                        /\ apc' = "timedBlocked"
                        /\ mutex' = NoOwner
                        /\ UNCHANGED fired
                   ELSE /\ fired' = Append(fired, Printed(Head(alarm_list)))
                        /\ alarm' = NoAlarm
                        /\ current_alarm' = cur
                        /\ apc' = "loop"
                        /\ UNCHANGED mutex
    /\ UNCHANGED <<active_group_threads, proc, corrupt, now, mainVars, cpc,
                   rpc, workers, preempts>>

\* Line 194: the absolute time of the wait has come.
AlarmTimeout ==
    /\ proc = "running" /\ apc = "timedBlocked" /\ now >= alarm.time
    /\ apc' = "timedOut"
    /\ UNCHANGED <<alarm_list, active_group_threads, current_alarm, mutex,
                   proc, corrupt, now, mainVars, cpc, rpc, workers, alarm,
                   fired, preempts>>

\* Lines 177 and 194: a wait returns with the mutex held.
AlarmReacquire ==
    /\ proc = "running" /\ mutex = NoOwner
    /\ apc \in {"idleWoken", "timedWoken", "timedOut"}
    /\ mutex' = Owner("alarm")
    /\ apc' = CASE apc = "idleWoken" -> "idle"
                [] apc = "timedWoken" -> "timed"
                [] apc = "timedOut" -> "expired"
    /\ UNCHANGED <<alarm_list, active_group_threads, current_alarm, proc,
                   corrupt, now, mainVars, cpc, rpc, workers, alarm, fired,
                   preempts>>

\* Lines 196-199 and 207-210: the wait timed out, the alarm is printed and
\* freed.
AlarmExpired ==
    /\ proc = "running" /\ apc = "expired" /\ mutex = Owner("alarm")
    /\ fired' = Append(fired, Printed(alarm))
    /\ alarm' = NoAlarm
    /\ apc' = "loop"
    /\ UNCHANGED <<alarm_list, active_group_threads, current_alarm, mutex,
                   proc, corrupt, now, mainVars, cpc, rpc, workers, preempts>>

\* Lines 193-204: the wait returned 0.  While current_alarm is the held
\* alarm's time the thread waits again; otherwise alarm_insert (lines
\* 98-148) puts the alarm back, and its pthread_cond_signal releases one
\* thread blocked on alarm_cond.
AlarmWoken ==
    /\ proc = "running" /\ apc = "timed" /\ mutex = Owner("alarm")
    /\ IF current_alarm = alarm.time
       THEN /\ apc' = "timedBlocked"
            /\ mutex' = NoOwner
            /\ UNCHANGED <<alarm_list, current_alarm, alarm, cpc, rpc>>
       ELSE /\ alarm_list' = alarm_insert(alarm_list, alarm)
            /\ alarm' = NoAlarm
            /\ apc' = "loop"
            /\ UNCHANGED mutex
            /\ IF current_alarm = 0 \/ alarm.time < current_alarm
               THEN /\ current_alarm' = alarm.time
                    /\ \/ cpc = "blocked" /\ cpc' = "woken" /\ UNCHANGED rpc
                       \/ rpc = "blocked" /\ rpc' = "woken" /\ UNCHANGED cpc
                       \/ cpc # "blocked" /\ rpc # "blocked" /\ UNCHANGED <<cpc, rpc>>
               ELSE UNCHANGED <<current_alarm, cpc, rpc>>
    /\ UNCHANGED <<active_group_threads, proc, corrupt, now, mainVars,
                   workers, fired, preempts>>

\* ---- the program as main wires it ---------------------------------------
Next ==
    \/ Tick
    \/ MainEndOfInput
    \/ MainAllocAbort(MaxReq)
    \/ MainInvalid(GroupsInRange, MsgFits, MaxReq)
    \/ MainStart(GroupsInRange, MsgFits, MaxReq)
    \/ MainStartAllocFail(GroupsInRange, MsgFits, MaxReq)
    \/ MainOther(MsgFits, MaxReq)
    \/ MainViewRead(MaxReq)
    \/ MainViewLock
    \/ MainView
    \/ MainLock
    \/ MainInsert
    \/ MainBroadcast
    \/ CreationWait
    \/ CreationReacquire
    \/ CreationScan
    \/ CreationSpawnFail
    \/ CreationExit
    \/ RemovalWait
    \/ RemovalReacquire
    \/ RemovalScan
    \/ SpuriousWakeup
    \/ DisplayLock
    \/ DisplayScan

Spec == Init /\ [][Next]_vars

\* ---- the program fed group ids that are not below MAX_GROUPS ------------
GroupsAnyRange == {0} \cup GroupsOutOfRange

NextAnyRange ==
    \/ Tick
    \/ MainEndOfInput
    \/ MainAllocAbort(MaxReq)
    \/ MainInvalid(GroupsAnyRange, MsgFits, MaxReq)
    \/ MainStart(GroupsAnyRange, MsgFits, MaxReq)
    \/ MainStartAllocFail(GroupsAnyRange, MsgFits, MaxReq)
    \/ MainOther(MsgFits, MaxReq)
    \/ MainViewRead(MaxReq)
    \/ MainViewLock
    \/ MainView
    \/ MainLock
    \/ MainInsert
    \/ MainBroadcast
    \/ CreationWait
    \/ CreationReacquire
    \/ CreationScan
    \/ CreationSpawnFail
    \/ CreationExit
    \/ RemovalWait
    \/ RemovalReacquire
    \/ RemovalScan
    \/ SpuriousWakeup
    \/ DisplayLock
    \/ DisplayScan

SpecAnyRange == Init /\ [][NextAnyRange]_vars

\* ---- the program fed messages that do not fit message[78] --------------
GroupsLongMessage == {0}

NextLongMessage ==
    \/ Tick
    \/ MainEndOfInput
    \/ MainAllocAbort(MaxLongReq)
    \/ MainInvalid(GroupsLongMessage, MsgAny, MaxLongReq)
    \/ MainStart(GroupsLongMessage, MsgAny, MaxLongReq)
    \/ MainStartAllocFail(GroupsLongMessage, MsgAny, MaxLongReq)
    \/ MainOther(MsgAny, MaxLongReq)
    \/ MainViewRead(MaxLongReq)
    \/ MainViewLock
    \/ MainView
    \/ MainLock
    \/ MainInsert
    \/ MainBroadcast
    \/ CreationWait
    \/ CreationReacquire
    \/ CreationScan
    \/ CreationSpawnFail
    \/ CreationExit
    \/ RemovalWait
    \/ RemovalReacquire
    \/ RemovalScan
    \/ SpuriousWakeup
    \/ DisplayLock
    \/ DisplayScan

SpecLongMessage == Init /\ [][NextLongMessage]_vars

\* ==== properties ===========================================================
\* C1: in every reachable state the alarm list, read from head to tail, is
\* sorted non-decreasing by time.
C1_SortedByDueTime ==
    \A i \in 1 .. (Len(alarm_list) - 1) :
        alarm_list[i].time <= alarm_list[i + 1].time

\* C2: no group ever has two display_alarm_thread instances running at the
\* same time.
C2_AtMostOneWorker ==
    \A g \in AllGroups : workers[g] <= 1

\* Three alarms of group 0 are in the list, the Removal loop has taken the
\* mutex for a pass over them and the Creation loop, woken again, waits
\* for the mutex: group 0 has one display thread.
C2_Witness ==
    /\ Len(alarm_list) = 3
    /\ \A i \in DOMAIN alarm_list : alarm_list[i].groupId = 0
    /\ workers[0] = 1 /\ Entry(active_group_threads, 0) = 1
    /\ rpc = "scan" /\ cpc = "woken"

\* C3: with no further requests every group of the list gets its display
\* thread.  Once main is back at its prompt and the Creation loop is blocked
\* in its wait, nothing is left to wake the loop, so by then every group of
\* the list must be marked active.
C3_WorkerForEveryGroup ==
    (proc = "running" /\ mpc = "read" /\ cpc = "blocked")
        => \A g \in GroupsOf(alarm_list) : Entry(active_group_threads, g) = 1

\* C5: a request whose group id is not below MAX_GROUPS is answered as
\* invalid, no node of such a group enters the list, and no display thread
\* and no table access exists for such a group.
C5_OutOfRangeRejected ==
    /\ (req # NoRequest /\ req.groupId \notin TableIdx) => ack = "invalid"
    /\ \A i \in DOMAIN alarm_list : alarm_list[i].groupId \in TableIdx
    /\ \A g \in GroupsOutOfRange : workers[g] = 0
    /\ ~corrupt

\* C6: for every group g, active_group_threads[g] = 1 if and only if a
\* display thread of g is running.
C6_ActiveIffWorker ==
    proc = "running" =>
        \A g \in GroupsInRange :
            (Entry(active_group_threads, g) = 1) <=> (workers[g] >= 1)

\* Group 0 is marked active and its display thread runs; an alarm of group
\* 1 is in the list, and group 1 is neither marked nor has a thread.  The
\* Removal loop has just passed over the list.
C6_Witness ==
    /\ Entry(active_group_threads, 0) = 1 /\ workers[0] = 1
    /\ Entry(active_group_threads, 1) = 0 /\ workers[1] = 0
    /\ GroupsOf(alarm_list) = {0, 1}
    /\ rpc = "lock" /\ mpc = "read" /\ nreq = 2

\* C8: wake-ups of the Creation and Removal loops between which the set of
\* groups in the list does not change add no spawn and no 1 -> 0 transition
\* after the first pass.  A pass leaves its loop settled, a settled loop
\* stays settled while the groups of the list stay the same, and a pass of
\* a settled loop changes neither the table nor the threads.
CreationSettled ==
    \A g \in GroupsOf(alarm_list) : Entry(active_group_threads, g) = 1
RemovalSettled ==
    \A g \in active_group_threads : g \in GroupsOf(alarm_list)
CreationPass == cpc = "scan" /\ cpc' = "lock"
RemovalPass == rpc = "scan" /\ rpc' = "lock"
SameGroups == GroupsOf(alarm_list') = GroupsOf(alarm_list)

C8_ReconciliationIdempotent ==
    [][ /\ CreationPass => CreationSettled'
        /\ RemovalPass => RemovalSettled'
        /\ (CreationSettled /\ SameGroups) => CreationSettled'
        /\ (RemovalSettled /\ SameGroups) => RemovalSettled'
        /\ (CreationPass /\ CreationSettled)
              => (workers' = workers /\ active_group_threads' = active_group_threads)
        /\ (RemovalPass /\ RemovalSettled)
              => active_group_threads' = active_group_threads ]_vars

\* A pass of the Creation loop is about to run over a list of two alarms
\* whose group already has its thread from an earlier pass.
C8_Witness ==
    /\ cpc = "scan" /\ Len(alarm_list) >= 2
    /\ CreationSettled
    /\ \A g \in GroupsOf(alarm_list) : workers[g] = 1

\* C9: a node is linked into the list exactly once, by the insert of its
\* request, and no later step of main, of a display thread or of the two
\* loops drops or duplicates a node.
C9_NoLostAlarms ==
    [][ /\ SeqsOf(alarm_list) \subseteq SeqsOf(alarm_list')
        /\ Cardinality(SeqsOf(alarm_list')) = Len(alarm_list')
        /\ IF mpc = "insert" /\ mpc' = "bcast"
           THEN /\ new_alarm.seq \notin SeqsOf(alarm_list)
                /\ SeqsOf(alarm_list') = SeqsOf(alarm_list) \cup {new_alarm.seq}
           ELSE SeqsOf(alarm_list') = SeqsOf(alarm_list) ]_vars

\* Two alarms are in the list, the second inserted at clock 0, and the
\* first has been rescheduled by its display thread since.
C9_Witness ==
    /\ Len(alarm_list) = 2
    /\ \E i, j \in DOMAIN alarm_list :
          /\ alarm_list[i].seq = 1 /\ alarm_list[i].time - alarm_list[i].seconds > 0
          /\ alarm_list[j].seq = 2 /\ alarm_list[j].time - alarm_list[j].seconds = 0
    /\ \A g \in GroupsOf(alarm_list) : workers[g] >= 1

\* C10: a Start_Alarm request with a negative id, group id or period gets
\* the invalid-request answer and changes nothing: the list, the table, the
\* threads and the waiters of alarm_cond are as before.
C10_NegativeRejected ==
    [][ (mpc = "read" /\ nreq' = nreq + 1
            /\ (req'.id < 0 \/ req'.groupId < 0 \/ req'.seconds < 0))
        => /\ ack' = "invalid"
           /\ mpc' = "read"
           /\ UNCHANGED <<alarm_list, active_group_threads, workers,
                          current_alarm, mutex, cpc, rpc, apc>> ]_vars

\* C11: Change_Alarm, Cancel_Alarm, Suspend_Alarm, Reactivate_Alarm and
\* View_Alarms leave the list (members, order, every time) and the table
\* as they are, and View_Alarms gives back the mutex it took.
C11_CommandsChangeNothing ==
    [][ /\ (mpc = "read" /\ nreq' = nreq + 1 /\ ack' \in OtherCommands)
            => /\ mpc' = "read"
               /\ UNCHANGED <<alarm_list, active_group_threads, workers,
                              current_alarm, mutex, cpc, rpc, apc>>
        /\ (mpc = "read" /\ ack' = "view" /\ nreq' = nreq + 1)
            => /\ mpc' = "viewlock"
               /\ UNCHANGED <<alarm_list, active_group_threads, workers,
                              current_alarm, mutex, cpc, rpc, apc>>
        /\ (mpc = "viewlock" /\ mpc' # "viewlock")
            => /\ mpc' = "view" /\ mutex' = Owner("main")
               /\ UNCHANGED <<alarm_list, active_group_threads, workers,
                              current_alarm, cpc, rpc, apc>>
        /\ (mpc = "view" /\ mpc' # "view")
            => /\ mpc' = "read" /\ mutex' = NoOwner
               /\ UNCHANGED <<alarm_list, active_group_threads, workers,
                              current_alarm, cpc, rpc, apc>> ]_vars

\* View_Alarms has run to its end over a list of one alarm whose group has
\* its display thread.
C11_Witness ==
    /\ ack = "view" /\ mpc = "read" /\ mutex = NoOwner
    /\ alarm_list # <<>>
    /\ \A g \in GroupsOf(alarm_list) : workers[g] = 1

\* C12: a malloc or pthread_create failure in the Creation loop is not fatal:
\* the step of the Creation loop that ends its critical section leaves the
\* process running and the loop ready for its next pass.
C12_SpawnFailureNotFatal ==
    [][(mutex = Owner("creation") /\ mutex' = NoOwner)
          => (proc' = "running" /\ cpc' = "lock")]_vars

\* C13: every insert, before it gives up the mutex, lowers current_alarm to
\* the new alarm's time when alarm_thread is idle (current_alarm = 0) or the
\* new time is earlier than current_alarm.
C13_InsertLowersCurrentAlarm ==
    [][(mpc = "insert" /\ mpc' = "bcast"
            /\ (current_alarm = 0 \/ new_alarm.time < current_alarm))
          => current_alarm' = new_alarm.time]_vars

\* C14: while the process runs, every thread whose position is between a lock (or the return of a
\* condition wait) and the matching unlock (or the next wait) is the owner
\* of alarm_mutex, so no two threads are there together, and the list, the
\* times of its nodes, current_alarm and active_group_threads change only
\* in steps taken by the owner of the mutex.
C14_InCriticalSection ==
    proc = "running" =>
        /\ mpc \in {"insert", "view"} => mutex = Owner("main")
        /\ cpc = "scan" => mutex = Owner("creation")
        /\ rpc = "scan" => mutex = Owner("removal")
        /\ apc \in {"loop", "idle", "timed", "expired"} => mutex = Owner("alarm")
        /\ mutex[1] = "display" => workers[mutex[2]] > 0

C14_SingleLockDomain ==
    /\ []C14_InCriticalSection
    /\ [][ (\/ alarm_list' # alarm_list
            \/ current_alarm' # current_alarm
            \/ active_group_threads' # active_group_threads)
              => \/ mutex = Owner("main") /\ mpc = "insert"
                 \/ mutex = Owner("creation") /\ cpc = "scan"
                 \/ mutex = Owner("removal") /\ rpc = "scan"
                 \/ mutex = Owner("alarm") /\ apc \in {"loop", "idle", "timed"}
                 \/ mutex[1] = "display" ]_vars

\* The display thread of group 0 holds the mutex while main waits for it
\* in insert_alarm and the two loops wait for it on their way out of
\* pthread_cond_wait.
C14_Witness ==
    /\ mutex = <<"display", 0>> /\ workers[0] = 1
    /\ mpc = "lock" /\ cpc = "woken" /\ rpc = "woken"
    /\ alarm_list # <<>>

\* C18: one traversal of the display thread of group g changes only the
\* time of alarms of group g that are due at the clock's reading, each to
\* a reading of the clock during the traversal plus its seconds, and it
\* does so for every alarm of g due when the traversal starts; the nodes
\* and their order, the time of every other alarm, all other fields, the
\* table, the display threads and current_alarm stay as they are.
C18_DisplayScanFrame ==
    [][(mutex[1] = "display" /\ mutex' = NoOwner)
          => /\ Len(alarm_list') = Len(alarm_list)
             /\ now' >= now
             /\ \A i \in DOMAIN alarm_list :
                   LET old == alarm_list[i]
                       new == alarm_list'[i]
                   IN  /\ [new EXCEPT !.time = old.time] = old
                       /\ new.time # old.time
                             => /\ old.groupId = mutex[2]
                                /\ old.time <= now'
                                /\ \E t \in now .. now' :
                                      new.time = t + old.seconds
                       /\ (old.groupId = mutex[2] /\ old.time <= now)
                             => \E t \in now .. now' :
                                   new.time = t + old.seconds
             /\ UNCHANGED <<active_group_threads, workers, current_alarm>>]_vars

\* At clock 1 the display thread of group 0 has rescheduled the alarm of
\* group 0 inserted at clock 0 with seconds 1, and has left alone the alarm
\* of group 1, which is due since clock 0.
C18_Witness ==
    /\ now = 1 /\ mutex = NoOwner /\ Len(alarm_list) = 2
    /\ \E i, j \in DOMAIN alarm_list :
          /\ alarm_list[i].seq = 1 /\ alarm_list[i].groupId = 0
          /\ alarm_list[i].seconds = 1 /\ alarm_list[i].time = 2
          /\ alarm_list[j].seq = 2 /\ alarm_list[j].groupId = 1
          /\ alarm_list[j].time = 0
    /\ workers[0] = 1

SortedById(list) ==
    \A i \in 1 .. (Len(list) - 1) : list[i].id <= list[i + 1].id

\* C19 as stated: the list is sorted non-decreasing by id, and an inserted
\* alarm stands before every alarm of the same id that was there already.
C19_NewBeforeEqualIds ==
    [][(mpc = "insert" /\ mpc' = "bcast")
          => /\ SortedById(alarm_list')
             /\ \A k, i \in DOMAIN alarm_list' :
                   (alarm_list'[k].seq = new_alarm.seq /\ i < k)
                       => alarm_list'[i].id < new_alarm.id]_vars

\* C19: with all inserts made by insert_alarm the list is sorted
\* non-decreasing by id.  A new alarm whose id is the head's is linked
\* directly behind the head; otherwise it stands behind the alarms of
\* smaller id and before all others, those of its own id included.
C19_SortedById ==
    /\ []SortedById(alarm_list)
    /\ [][(mpc = "insert" /\ mpc' = "bcast")
            => \E k \in DOMAIN alarm_list' :
                  /\ alarm_list'[k] = new_alarm
                  /\ IF alarm_list # <<>> /\ Head(alarm_list).id = new_alarm.id
                     THEN k = 2
                     ELSE \A i \in 1 .. (k - 1) :
                             alarm_list'[i].id < new_alarm.id
                  /\ \A i \in (k + 1) .. Len(alarm_list') :
                        alarm_list'[i].id >= new_alarm.id]_vars

\* Three alarms of one id: the third request has just been linked, directly
\* behind the head (the first request) and before the second request.
C19_Witness ==
    /\ Len(alarm_list) = 3 /\ mpc = "bcast" /\ nreq = 3
    /\ alarm_list[1].seq = 1 /\ alarm_list[2].seq = 3 /\ alarm_list[3].seq = 2
    /\ alarm_list[1].id = alarm_list[2].id /\ alarm_list[2].id = alarm_list[3].id

\* Ids 1, 2, 2: the third request, of id 2, has just been linked behind the
\* alarm of id 1 and before the older alarm of id 2.
C19_WitnessBeforeOwnId ==
    /\ Len(alarm_list) = 3 /\ mpc = "bcast" /\ nreq = 3
    /\ alarm_list[1].seq = 1 /\ alarm_list[2].seq = 3 /\ alarm_list[3].seq = 2
    /\ alarm_list[1].id = 1 /\ alarm_list[2].id = 2 /\ alarm_list[3].id = 2

\* C20: a display thread of group g is started only by the Creation loop in
\* its critical section, one per pass, in a state where
\* active_group_threads[g] = 0 and the list holds an alarm of g, and the
\* same step sets active_group_threads[g] = 1; the flag goes back to 0 only
\* in a step of the Removal loop.  So two spawns for g have a Removal reset
\* between them, and without a reset g gets at most one thread however many
\* of its alarms are inserted.
C20_SpawnOnlyWhenInactive ==
    [][\A g \in GroupsInRange :
          /\ workers'[g] # workers[g]
                => /\ mutex = Owner("creation") /\ cpc = "scan"
                   /\ workers'[g] = workers[g] + 1
                   /\ Entry(active_group_threads, g) = 0
                   /\ g \in GroupsOf(alarm_list)
                   /\ Entry(active_group_threads', g) = 1
          /\ (Entry(active_group_threads, g) = 0
                 /\ Entry(active_group_threads', g) = 1)
                => workers'[g] = workers[g] + 1
          /\ (Entry(active_group_threads, g) = 1
                 /\ Entry(active_group_threads', g) = 0)
                => mutex = Owner("removal") /\ rpc = "scan"]_vars

\* Creation passes have started one display thread for group 0 and one for
\* group 1, each while the group's flag was 0, and both flags are now 1.
C20_Witness ==
    /\ workers[0] = 1 /\ Entry(active_group_threads, 0) = 1
    /\ workers[1] = 1 /\ Entry(active_group_threads, 1) = 1
    /\ cpc = "lock" /\ mutex = NoOwner

====
